---- MODULE Spec2Model ----
(***************************************************************************)
(* Model of the climate-to-infrastructure aggregation pipeline:            *)
(*   - the transactional bulk load (scenariomip/infra_intersection_load),  *)
(*   - the zonal aggregation (scenariomip/infra_intersection),             *)
(*   - model discovery and validation (nasa_nex/process_climate).          *)
(***************************************************************************)
EXTENDS Integers, Sequences, FiniteSets, TLC

\* ------------------------------------------------------------------------
\* Bounds of the model
\* ------------------------------------------------------------------------
MaxRuns == 2
MaxRows == 2
MaxClock == 1
RandChoices == 2
MaxFeatures == 3
MaxCpu == 2
MaxModels == 3
MaxVertices == 3
MaxSamples == 2
MaxStack == 3
MaxSsps == 3
MaxLon == 4
MaxCalls == 3
MaxSurplus == 1

\* ------------------------------------------------------------------------
\* Program constants
\* ------------------------------------------------------------------------
RandLo == 1000
RandHi == 9999

Runs == 1..MaxRuns
OsmIds == {1, 2}
Values == {10, 20}
Months == {1}
Decades == {2020}
SSPs == {126}

Min(a, b) == IF a <= b THEN a ELSE b

VARIABLES
    now,        \* last reading of the wall clock, in whole seconds
    pc,         \* position of each execution of infra_intersection_load.main
    df,         \* the dataframe each execution was called with
    ssp,        \* the ssp argument of each execution
    tableId,    \* the id generate_random_table_id returned to each execution
    steps,      \* the database commands each execution has issued, in order
    failedAt,   \* the command that raised in an execution, "none" otherwise
    staging,    \* content of the execution's temp table
    txnTables,  \* temp tables created in the open transaction of each connection
    sessTables, \* temp tables committed in the session of each connection
    pending,    \* fact rows inserted by the open transaction of each connection
    fact        \* committed rows of climate.nasa_nex_<climate_variable>

VARIABLES
    zpc,         \* position in infra_intersection.main / zonal_aggregation
    infra,       \* the features handed to zonal_aggregation, indexed by osm_id
    cpu,         \* os.cpu_count()
    df_point,    \* rows returned by zonal_aggregation_point
    df_linestring, \* rows returned by zonal_aggregation_linestring
    climate_computed, \* whether climate.compute() has materialized the cube
    geometry_chunks,  \* np.array_split(infra.geometry, workers)
    futures,     \* the submitted worker tasks
    results,     \* dataframes appended from the futures that returned
    zlog,        \* number of "could not be appended" messages logged
    zdf,         \* the dataframe zonal_aggregation returns / main holds
    failed_aggregations, \* the count main logs, -1 before it is logged
    zerror       \* the exception that left zonal_aggregation, "none" otherwise

VARIABLES
    lpc,         \* position in process_climate.load_data
    scenario,    \* the ssp argument of load_data ("historical" or a code)
    model_paths, \* the model directories fs.glob returned, each with its tree
    lidx,        \* index of the model the loop of load_data is at
    data,        \* the models appended to data, in order
    warnings,    \* the "Skipping ..." warnings logged, in order
    lerror       \* the exception that left load_data, "none" otherwise

VARIABLES
    ypc,         \* "done" once validate_model_years has returned
    zarr_stores, \* the store names validate_model_years is called with
    years_valid, \* what validate_model_years returned
    spc,         \* "done" once validate_model_ssp has returned
    model_tree,  \* the directories under the model path of validate_model_ssp
    ssp_arg,     \* the ssp argument of validate_model_ssp
    ssp_valid    \* what validate_model_ssp returned

VARIABLES
    climate,          \* the ensemble cube the sampling routines are called with
    point_features,   \* the point features, as <<osm_id, point>> records
    line_features,    \* the line features, as <<osm_id, coords>> records
    zonal_agg_method, \* the zonal_agg_method argument of zonal_aggregation
    points_pc,        \* "done" once zonal_aggregation_point has returned
    points_df,        \* the dataframe zonal_aggregation_point returned
    lines_pc,         \* "done" once zonal_aggregation_linestring has returned
    lines_df          \* the dataframe zonal_aggregation_linestring returned

VARIABLES
    cpc,     \* "done" once decade_month_calc has returned
    ds,      \* the samples along the time axis, as [year, month, value]
    ds_out   \* the decade_month entries decade_month_calc returned

VARIABLES
    stats_pc,  \* "done" once reduce_model_stats has returned
    stack,     \* the model grids load_data stacked, in discovery order
    perm,      \* the order of the model axis reduce_model_stats is given
    stats_ds   \* the dataset reduce_model_stats returned

VARIABLES
    entry,      \* the script that was started
    ssp_list,   \* the SSPs the script runs pipeline.main for, in order
    ssp_idx,    \* index of the SSP the script is at
    stage,      \* the statement of pipeline.main that runs next
    idle,       \* connections of connection_pool that are not checked out
    used,       \* connections checked out of connection_pool, with their holder
    opened,     \* number of connections connection_pool has opened
    run_log,    \* the SUCCEEDED / FAILED messages the script logged
    perror,     \* the stage whose exception ended the script, "none" otherwise
    invoked,    \* the SSPs pipeline.main was called with, in call order
    done,       \* the statements of the current pipeline.main that returned
    reduced_in  \* the stages that executed the task graph of reduce_model_stats

VARIABLES
    gpc,    \* "done" once the spatial steps of process_climate have run
    garg,   \* their arguments: the variant, the x and y axes, bbox, the flag
    gout    \* the axes of the grid they produced

VARIABLES
    db_copy,   \* the copy of database.py that serves the requests
    db_pc,     \* position in get_database_conn
    tries,     \* the local variable tries
    conn,      \* the local variable conn: 0 while unbound, else the attempt
    attempts,  \* number of pg.connect calls of the current call
    db_log     \* how each call of get_database_conn ended, in order

VARIABLES
    mpc,         \* position in the head of infra_intersection.main
    infra_data,  \* the osm_ids utils.query_db returned
    infra_gdf,   \* the osm_ids of the frame handed to zonal_aggregation
    merror       \* the exception that left main, "none" otherwise

loadVars == <<now, pc, df, ssp, tableId, steps, failedAt, staging,
              txnTables, sessTables, pending, fact>>

climateVars == <<lpc, scenario, model_paths, lidx, data, warnings, lerror>>

validateVars == <<ypc, zarr_stores, years_valid, spc, model_tree, ssp_arg,
                  ssp_valid>>

samplingVars == <<climate, point_features, line_features, zonal_agg_method,
                  points_pc, points_df, lines_pc, lines_df>>

calcVars == <<cpc, ds, ds_out>>

\* The variables of the operations modelled after process_climate.load_data.
statsVars == <<stats_pc, stack, perm, stats_ds>>

pipeVars == <<entry, ssp_list, ssp_idx, stage, idle, used, opened, run_log,
              perror, invoked, done, reduced_in>>

gridVars == <<gpc, garg, gout>>

dbVars == <<db_copy, db_pc, tries, conn, attempts, db_log>>

mainVars == <<mpc, infra_data, infra_gdf, merror>>

restVars == <<validateVars, samplingVars, calcVars, statsVars, pipeVars,
              gridVars, dbVars, mainVars>>

validateOthers == <<samplingVars, calcVars, statsVars, pipeVars, gridVars,
                    dbVars, mainVars>>

samplingOthers == <<validateVars, calcVars, statsVars, pipeVars, gridVars,
                    dbVars, mainVars>>

calcOthers == <<validateVars, samplingVars, statsVars, pipeVars, gridVars,
                dbVars, mainVars>>

statsOthers == <<validateVars, samplingVars, calcVars, pipeVars, gridVars,
                 dbVars, mainVars>>

pipeOthers == <<validateVars, samplingVars, calcVars, statsVars, gridVars,
                dbVars, mainVars>>

zonalVars == <<zpc, infra, cpu, df_point, df_linestring, climate_computed,
               geometry_chunks, futures, results, zlog, zdf,
               failed_aggregations, zerror>>

vars == <<now, pc, df, ssp, tableId, steps, failedAt, staging,
          txnTables, sessTables, pending, fact,
          zpc, infra, cpu, df_point, df_linestring, climate_computed,
          geometry_chunks, futures, results, zlog, zdf,
          failed_aggregations, zerror,
          lpc, scenario, model_paths, lidx, data, warnings, lerror,
          ypc, zarr_stores, years_valid, spc, model_tree, ssp_arg, ssp_valid,
          climate, point_features, line_features, zonal_agg_method,
          points_pc, points_df, lines_pc, lines_df,
          cpc, ds, ds_out,
          stats_pc, stack, perm, stats_ds,
          entry, ssp_list, ssp_idx, stage, idle, used, opened, run_log, perror,
          invoked, done, reduced_in,
          gpc, garg, gout,
          db_copy, db_pc, tries, conn, attempts, db_log,
          mpc, infra_data, infra_gdf, merror>>

\* The variables of the pipeline stages and of the functions called on
\* their own.
stageVars == <<loadVars, zonalVars, climateVars, validateVars, samplingVars,
               calcVars, statsVars, pipeVars>>

\* ------------------------------------------------------------------------
\* infra_intersection_load
\* ------------------------------------------------------------------------

\* psycopg2 connections handed out by SimpleConnectionPool are not in
\* autocommit mode: every command of main runs in one open transaction.
AutocommitOn == TRUE

Autocommit == FALSE

\* time.time() truncated to whole seconds: a reading is never smaller than
\* an earlier one.
ClockReadings == now..MaxClock

RandomParts == RandLo..Min(RandHi, RandLo + RandChoices - 1)

\* f"{timestamp}{random_part}": the random part always has four digits.
TableId(timestamp, random_part) == timestamp * 10000 + random_part

\* The ids generate_random_table_id can return when the clock reads t.
generate_random_table_id(t) == {TableId(t, n) : n \in RandomParts}

DfRows == [osm_id : OsmIds, month : Months, decade : Decades, value : Values]

SeqsUpTo(S, n) == UNION {[1..k -> S] : k \in 0..n}

Dataframes == SeqsUpTo(DfRows, MaxRows)

\* df["ssp"] = ssp, then df[TEMP_TABLE_COLUMNS] is what COPY receives.
StagingRow(d, s) ==
    [osm_id |-> d.osm_id, month |-> d.month, decade |-> d.decade,
     ssp |-> s, value |-> d.value]

\* The key of the fact table on which ON CONFLICT detects a conflict.
NaturalKey(row) == <<row.osm_id, row.decade, row.month, row.ssp>>

KeysOf(rows) == {NaturalKey(t) : t \in rows}

FactRow(s, r, i) ==
    [osm_id |-> s.osm_id, month |-> s.month, decade |-> s.decade,
     ssp |-> s.ssp, value |-> s.value, run |-> r, idx |-> i]

\* INSERT ... SELECT ... FROM temp ON CONFLICT DO NOTHING: the rows of the
\* temp table are proposed one after another; a row whose key is already in
\* the table (or was inserted earlier by the same command) is skipped.
RECURSIVE InsertFrom(_, _, _, _)
InsertFrom(table, stg, r, i) ==
    IF i > Len(stg) THEN {}
    ELSE IF NaturalKey(stg[i]) \in KeysOf(table)
         THEN InsertFrom(table, stg, r, i + 1)
         ELSE LET new == FactRow(stg[i], r, i)
              IN {new} \cup InsertFrom(table \cup {new}, stg, r, i + 1)

InsertSelectAll(table, stg, r) == {FactRow(stg[i], r, i) : i \in 1..Len(stg)}

InsertSelectAllOrNothing(table, stg, r) ==
    IF \E i \in 1..Len(stg) : NaturalKey(stg[i]) \in KeysOf(table)
    THEN {}
    ELSE InsertFrom(table, stg, r, 1)

InsertSelect(table, stg, r) == InsertFrom(table, stg, r, 1)

\* A row proposed for insertion waits for every open transaction that has
\* inserted the same key, until that transaction ends.
Blocked(r) ==
    \E o \in Runs \ {r} :
        KeysOf(pending[o]) \cap {NaturalKey(staging[r][i]) : i \in 1..Len(staging[r])} # {}

LoadInit ==
    /\ now = 0
    /\ pc = [r \in Runs |-> "idle"]
    /\ df = [r \in Runs |-> <<>>]
    /\ ssp = [r \in Runs |-> 0]
    /\ tableId = [r \in Runs |-> 0]
    /\ steps = [r \in Runs |-> <<>>]
    /\ failedAt = [r \in Runs |-> "none"]
    /\ staging = [r \in Runs |-> <<>>]
    /\ txnTables = [r \in Runs |-> {}]
    /\ sessTables = [r \in Runs |-> {}]
    /\ pending = [r \in Runs |-> {}]
    /\ fact = {}

\* main is entered: the ssp column is added, the table id is drawn and the
\* dataframe is written to the in-memory CSV buffer. The executions are
\* numbered in the order in which they enter main.
Start(r) ==
    /\ pc[r] = "idle"
    /\ \A q \in Runs : q < r => pc[q] # "idle"
    /\ \E d \in Dataframes, s \in SSPs, t \in ClockReadings :
        \E id \in generate_random_table_id(t) :
            /\ df' = [df EXCEPT ![r] = d]
            /\ ssp' = [ssp EXCEPT ![r] = s]
            /\ now' = t
            /\ tableId' = [tableId EXCEPT ![r] = id]
    /\ pc' = [pc EXCEPT ![r] = "started"]
    /\ UNCHANGED <<steps, failedAt, staging, txnTables, sessTables, pending, fact>>
    /\ UNCHANGED <<zonalVars, climateVars, restVars>>

\* cur.execute(create_nasa_nex_temp_table)
Create(r) ==
    /\ pc[r] = "started"
    /\ pc' = [pc EXCEPT ![r] = "created"]
    /\ steps' = [steps EXCEPT ![r] = Append(@, "create")]
    /\ IF Autocommit
       THEN /\ sessTables' = [sessTables EXCEPT ![r] = @ \cup {tableId[r]}]
            /\ UNCHANGED txnTables
       ELSE /\ txnTables' = [txnTables EXCEPT ![r] = @ \cup {tableId[r]}]
            /\ UNCHANGED sessTables
    /\ UNCHANGED <<now, df, ssp, tableId, failedAt, staging, pending, fact>>
    /\ UNCHANGED <<zonalVars, climateVars, restVars>>

\* cur.copy_expert(copy_nasa_nex_temp, sio)
Copy(r) ==
    /\ pc[r] = "created"
    /\ pc' = [pc EXCEPT ![r] = "copied"]
    /\ steps' = [steps EXCEPT ![r] = Append(@, "copy")]
    /\ staging' = [staging EXCEPT ![r] =
                      [i \in 1..Len(df[r]) |-> StagingRow(df[r][i], ssp[r])]]
    /\ UNCHANGED <<now, df, ssp, tableId, failedAt, txnTables, sessTables, pending, fact>>
    /\ UNCHANGED <<zonalVars, climateVars, restVars>>

\* cur.execute(insert_nasa_nex)
Insert(r) ==
    /\ pc[r] = "copied"
    /\ ~Blocked(r)
    /\ pc' = [pc EXCEPT ![r] = "inserted"]
    /\ steps' = [steps EXCEPT ![r] = Append(@, "insert")]
    /\ LET new == InsertSelect(fact \cup pending[r], staging[r], r)
       IN IF Autocommit
          THEN /\ fact' = fact \cup new
               /\ UNCHANGED pending
          ELSE /\ pending' = [pending EXCEPT ![r] = @ \cup new]
               /\ UNCHANGED fact
    /\ UNCHANGED <<now, df, ssp, tableId, failedAt, staging, txnTables, sessTables>>
    /\ UNCHANGED <<zonalVars, climateVars, restVars>>

\* cur.execute(drop_nasa_nex_temp)
Drop(r) ==
    /\ pc[r] = "inserted"
    /\ pc' = [pc EXCEPT ![r] = "dropped"]
    /\ steps' = [steps EXCEPT ![r] = Append(@, "drop")]
    /\ staging' = [staging EXCEPT ![r] = <<>>]
    /\ txnTables' = [txnTables EXCEPT ![r] = @ \ {tableId[r]}]
    /\ sessTables' = [sessTables EXCEPT ![r] = @ \ {tableId[r]}]
    /\ UNCHANGED <<now, df, ssp, tableId, failedAt, pending, fact>>
    /\ UNCHANGED <<zonalVars, climateVars, restVars>>

\* conn.commit()
Commit(r) ==
    /\ pc[r] = "dropped"
    /\ pc' = [pc EXCEPT ![r] = "committed"]
    /\ steps' = [steps EXCEPT ![r] = Append(@, "commit")]
    /\ fact' = fact \cup pending[r]
    /\ pending' = [pending EXCEPT ![r] = {}]
    /\ sessTables' = [sessTables EXCEPT ![r] = @ \cup txnTables[r]]
    /\ txnTables' = [txnTables EXCEPT ![r] = {}]
    /\ UNCHANGED <<now, df, ssp, tableId, failedAt, staging>>
    /\ UNCHANGED <<zonalVars, climateVars, restVars>>

NextCommand(r) ==
    CASE pc[r] = "started" -> "create"
      [] pc[r] = "created" -> "copy"
      [] pc[r] = "copied" -> "insert"
      [] pc[r] = "inserted" -> "drop"
      [] OTHER -> "none"

\* One of the four commands raises: the exception leaves the with block and
\* main; conn.commit() is not reached and nothing is executed again.
Raise(r) ==
    /\ NextCommand(r) # "none"
    /\ pc' = [pc EXCEPT ![r] = "raised"]
    /\ steps' = [steps EXCEPT ![r] = Append(@, NextCommand(r))]
    /\ failedAt' = [failedAt EXCEPT ![r] = NextCommand(r)]
    /\ UNCHANGED <<now, df, ssp, tableId, staging, txnTables, sessTables, pending, fact>>
    /\ UNCHANGED <<zonalVars, climateVars, restVars>>

\* The connection of a failed execution is never returned to the pool nor
\* committed: it is closed with its pool, which ends the open transaction
\* and the session.
CloseConn(r) ==
    /\ pc[r] = "raised"
    /\ pc' = [pc EXCEPT ![r] = "closed"]
    /\ pending' = [pending EXCEPT ![r] = {}]
    /\ txnTables' = [txnTables EXCEPT ![r] = {}]
    /\ sessTables' = [sessTables EXCEPT ![r] = {}]
    /\ staging' = [staging EXCEPT ![r] = <<>>]
    /\ UNCHANGED <<now, df, ssp, tableId, steps, failedAt, fact>>
    /\ UNCHANGED <<zonalVars, climateVars, restVars>>

LoadNext ==
    \E r \in Runs :
        \/ Start(r)
        \/ Create(r)
        \/ Copy(r)
        \/ Insert(r)
        \/ Drop(r)
        \/ Commit(r)
        \/ Raise(r)
        \/ CloseConn(r)

\* ------------------------------------------------------------------------
\* infra_intersection
\* ------------------------------------------------------------------------
point_geom_types == {"Point", "MultiPoint"}
line_geom_types_single == {"LineString"}

line_geom_types == {"LineString", "MultiLineString"}
polygon_geom_types == {"Polygon", "MultiPolygon"}

\* The geometry types of the features the OSM tables hold.
GeomTypes ==
    {"Point", "MultiPoint", "LineString", "MultiLineString", "Polygon",
     "MultiPolygon"}

\* A feature: its geometry type and whether the grid covers it (a feature
\* outside the grid aggregates to NaN).
Features == [geom_type : GeomTypes, covered : BOOLEAN]

Frames == SeqsUpTo(Features, MaxFeatures)

\* infra.loc[infra.geom_type.isin(types)]: the osm_ids (index values) of the
\* selected features, in frame order.
SelectInfra(frame, types) ==
    SelectSeq([i \in 1..Len(frame) |-> i], LAMBDA i : frame[i].geom_type \in types)

line_infra == SelectInfra(infra, line_geom_types)
polygon_infra == SelectInfra(infra, polygon_geom_types)
point_infra == SelectInfra(infra, point_geom_types)

Range(s) == {s[i] : i \in 1..Len(s)}

\* The rows one aggregation routine returns for the features ids: one row
\* per feature (and decade-month), null when the grid does not cover it.
\* A row carries the set of its statistic columns that are null: the cube
\* has a value in every statistic where it has one in any.
StatColumns ==
    {"value_mean", "value_median", "value_stddev", "value_min", "value_max",
     "value_q1", "value_q3"}

NullsOf(feature) == IF feature.covered THEN {} ELSE StatColumns

RowsOf(ids, kind) ==
    {[osm_id |-> i, kind |-> kind, nulls |-> NullsOf(infra[i])] : i \in Range(ids)}

\* workers = min(os.cpu_count(), len(infra.geometry))
WorkersCpuOnly(cpu_count, n) == cpu_count

Workers(cpu_count, n) == Min(cpu_count, n)

\* np.array_split(ary, sections): the first len % sections chunks have
\* len // sections + 1 elements, the others len // sections.
ChunkSize(n, k, i) == (n \div k) + (IF i <= n % k THEN 1 ELSE 0)

ChunkStart(n, k, i) == (i - 1) * (n \div k) + Min(i - 1, n % k)

ArraySplit(ary, k) ==
    [i \in 1..k |->
        SubSeq(ary, ChunkStart(Len(ary), k, i) + 1,
                    ChunkStart(Len(ary), k, i) + ChunkSize(Len(ary), k, i))]

ZonalInit ==
    /\ zpc = "init"
    /\ infra = <<>>
    /\ cpu = 1
    /\ df_point = {}
    /\ df_linestring = {}
    /\ climate_computed = FALSE
    /\ geometry_chunks = <<>>
    /\ futures = <<>>
    /\ results = <<>>
    /\ zlog = 0
    /\ zdf = {}
    /\ failed_aggregations = -1
    /\ zerror = "none"

\* zonal_aggregation is called with a frame of features.
ZonalStart ==
    /\ zpc = "init"
    /\ \E f \in Frames, c \in 1..MaxCpu :
        /\ infra' = f
        /\ cpu' = c
    /\ zpc' = "point"
    /\ UNCHANGED <<df_point, df_linestring, climate_computed, geometry_chunks,
                   futures, results, zlog, zdf, failed_aggregations, zerror>>
    /\ UNCHANGED <<loadVars, climateVars, restVars>>

\* zonal_aggregation_point
ZonalPoint ==
    /\ zpc = "point"
    /\ df_point' = RowsOf(point_infra, "point")
    /\ zpc' = "line"
    /\ UNCHANGED <<infra, cpu, df_linestring, climate_computed, geometry_chunks,
                   futures, results, zlog, zdf, failed_aggregations, zerror>>
    /\ UNCHANGED <<loadVars, climateVars, restVars>>

\* zonal_aggregation_linestring: list(line.coords) raises
\* NotImplementedError for a multi-part geometry, which has no coordinate
\* sequence of its own.
ZonalLine ==
    /\ zpc = "line"
    /\ IF \E i \in Range(line_infra) : infra[i].geom_type = "MultiLineString"
       THEN /\ zpc' = "raised"
            /\ zerror' = "NotImplementedError"
            /\ UNCHANGED df_linestring
       ELSE /\ df_linestring' = RowsOf(line_infra, "line")
            /\ zpc' = "polygon"
            /\ UNCHANGED zerror
    /\ UNCHANGED <<infra, cpu, df_point, climate_computed, geometry_chunks,
                   futures, results, zlog, zdf, failed_aggregations>>
    /\ UNCHANGED <<loadVars, climateVars, restVars>>

\* zonal_aggregation_polygon up to the end of the submit loop: the cube is
\* computed, the geometries are split and one task per chunk is submitted.
\* np.array_split raises ValueError for zero sections.
PolygonSubmit ==
    /\ zpc = "polygon"
    /\ climate_computed' = TRUE
    /\ LET workers == Workers(cpu, Len(polygon_infra))
       IN IF workers <= 0
          THEN /\ zpc' = "raised"
               /\ zerror' = "ValueError"
               /\ UNCHANGED <<geometry_chunks, futures>>
          ELSE /\ geometry_chunks' = ArraySplit(polygon_infra, workers)
               /\ futures' = [i \in 1..workers |->
                                [geometry |-> ArraySplit(polygon_infra, workers)[i],
                                 computed |-> climate_computed',
                                 state |-> "running"]]
               /\ zpc' = "waiting"
               /\ UNCHANGED zerror
    /\ UNCHANGED <<infra, cpu, df_point, df_linestring, results, zlog, zdf,
                   failed_aggregations>>
    /\ UNCHANGED <<loadVars, climateVars, restVars>>

\* A worker process finishes task_xvec_zonal_stats for its chunk, with a
\* dataframe or with an exception.
WorkerDone(i) ==
    /\ zpc = "waiting"
    /\ i \in 1..Len(futures)
    /\ futures[i].state = "running"
    /\ \E outcome \in {"returned", "raised"} :
        futures' = [futures EXCEPT ![i].state = outcome]
    /\ UNCHANGED <<zpc, infra, cpu, df_point, df_linestring, climate_computed,
                   geometry_chunks, results, zlog, zdf, failed_aggregations, zerror>>
    /\ UNCHANGED <<loadVars, climateVars, restVars>>

\* The loop over the futures: the result of each future that returned is
\* appended, the exception of each other one is logged.
ReturnedFutures(fs) ==
    SelectSeq([i \in 1..Len(fs) |-> i], LAMBDA i : fs[i].state = "returned")

CollectedResults(fs) ==
    [k \in 1..Len(ReturnedFutures(fs)) |->
        RowsOf(fs[ReturnedFutures(fs)[k]].geometry, "polygon")]

\* pd.concat(results) raises ValueError when results is empty.
PolygonCollect ==
    /\ zpc = "waiting"
    /\ \A i \in 1..Len(futures) : futures[i].state # "running"
    /\ results' = CollectedResults(futures)
    /\ zlog' = zlog + Cardinality({i \in 1..Len(futures) : futures[i].state = "raised"})
    /\ IF results' = <<>>
       THEN /\ zpc' = "raised"
            /\ zerror' = "ValueError"
       ELSE /\ zpc' = "concat"
            /\ UNCHANGED zerror
    /\ UNCHANGED <<infra, cpu, df_point, df_linestring, climate_computed,
                   geometry_chunks, futures, zdf, failed_aggregations>>
    /\ UNCHANGED <<loadVars, climateVars, restVars>>

\* df = pd.concat([df_point, df_linestring, df_polygon]); return df
ZonalConcat ==
    /\ zpc = "concat"
    /\ zdf' = df_point \cup df_linestring \cup UNION Range(results)
    /\ zpc' = "returned"
    /\ UNCHANGED <<infra, cpu, df_point, df_linestring, climate_computed,
                   geometry_chunks, futures, results, zlog, failed_aggregations, zerror>>
    /\ UNCHANGED <<loadVars, climateVars, restVars>>

\* df.dropna(): the rows without a null in any column.
DropNaKeepAll(rows) == rows

DropNa(rows) == {t \in rows : t.nulls = {}}

\* infra_intersection.main after zonal_aggregation returned: the number of
\* osm_ids with a null value_mean is logged and the null rows are dropped.
MainDropNa ==
    /\ zpc = "returned"
    /\ failed_aggregations' = Cardinality({row.osm_id : row \in {t \in zdf : "value_mean" \in t.nulls}})
    /\ zdf' = DropNa(zdf)
    /\ zpc' = "main_done"
    /\ UNCHANGED <<infra, cpu, df_point, df_linestring, climate_computed,
                   geometry_chunks, futures, results, zlog, zerror>>
    /\ UNCHANGED <<loadVars, climateVars, restVars>>

ZonalNext ==
    \/ ZonalStart
    \/ ZonalPoint
    \/ ZonalLine
    \/ PolygonSubmit
    \/ \E i \in 1..MaxFeatures : WorkerDone(i)
    \/ PolygonCollect
    \/ ZonalConcat
    \/ MainDropNa

\* ------------------------------------------------------------------------
\* process_climate (nasa_nex)
\* ------------------------------------------------------------------------
HISTORICAL_YEARS == 1950..2014
FUTURE_YEARS == 2015..2100

Scenarios == {"585", "historical"}

\* A directory name under a model path, as <<prefix, scenario>>:
\* f"ssp{ssp}" is <<"ssp", ssp>> and f"{ssp}" is <<"", ssp>>.
DirNames == {<<"ssp", "585">>, <<"", "historical">>}

YearSeq(lo, hi) == [i \in 1..(hi - lo + 1) |-> lo + i - 1]

\* The characters "0".."9"; DigitChars[d + 1] is the character of digit d.
DigitChars == <<"0", "1", "2", "3", "4", "5", "6", "7", "8", "9">>

DigitValue(c) == (CHOOSE i \in 1..Len(DigitChars) : DigitChars[i] = c) - 1

\* f"{year}" for a year of four digits.
FormatYear(y) ==
    <<DigitChars[((y \div 1000) % 10) + 1], DigitChars[((y \div 100) % 10) + 1],
      DigitChars[((y \div 10) % 10) + 1], DigitChars[(y % 10) + 1]>>

\* A store name, as the characters that end its stem and its extension:
\* ".../tas_day_2015.zarr" is [stem |-> <<"_", "2", "0", "1", "5">>,
\* ext |-> ".zarr"].
StoreName(y) == [stem |-> <<"_">> \o FormatYear(y), ext |-> ".zarr"]

\* re.search(r"_(\d{4})\.zarr$", store)
YearMatch(store) ==
    LET n == Len(store.stem)
    IN /\ store.ext = ".zarr"
       /\ n >= 5
       /\ store.stem[n - 4] = "_"
       /\ \A i \in (n - 3)..n : store.stem[i] \in Range(DigitChars)

\* int(match.group(1))
YearOf(store) ==
    LET n == Len(store.stem)
    IN DigitValue(store.stem[n - 3]) * 1000 + DigitValue(store.stem[n - 2]) * 100
       + DigitValue(store.stem[n - 1]) * 10 + DigitValue(store.stem[n])

StoreNames(years) == [i \in 1..Len(years) |-> StoreName(years[i])]

\* The per-year stores a directory can hold, by the year in each store name.
StoreLists == {"future", "future_gap", "historical"}

StoresOf(list) ==
    CASE list = "future" -> StoreNames(YearSeq(2015, 2100))
      [] list = "future_gap" ->
            StoreNames(YearSeq(2015, 2049) \o YearSeq(2051, 2100))
      [] list = "historical" -> StoreNames(YearSeq(1950, 2014))

\* The tree under a model path: the directories that exist, each with the
\* stores it holds.
ModelTrees == UNION {[D -> StoreLists] : D \in SUBSET DirNames}

\* fs.exists(f"{model_path}/ssp{ssp}") or fs.exists(f"{model_path}/{ssp}")
validate_model_ssp(tree, s) ==
    \/ <<"ssp", s>> \in DOMAIN tree
    \/ <<"", s>> \in DOMAIN tree

\* fs.glob(f"{model_path}/ssp{ssp}/*/{climate_variable}_day_*.zarr")
GlobStores(tree, s) ==
    IF <<"ssp", s>> \in DOMAIN tree THEN StoresOf(tree[<<"ssp", s>>]) ELSE <<>>

\* The years added to available_years by the loop over the stores.
AvailableYears(stores) ==
    {YearOf(stores[i]) : i \in {j \in 1..Len(stores) : YearMatch(stores[j])}}

validate_model_years_no_surplus(stores) ==
    \/ AvailableYears(stores) \subseteq HISTORICAL_YEARS
    \/ AvailableYears(stores) \subseteq FUTURE_YEARS

validate_model_years(stores) ==
    \/ HISTORICAL_YEARS = AvailableYears(stores)
    \/ FUTURE_YEARS = AvailableYears(stores)

\* model_paths[:2]
ModelSlice(paths) == SubSeq(paths, 1, Min(2, Len(paths)))

\* da.assign_attrs(ensemble_members=da.model.values): the model coordinate
\* of the combined stack, one label per appended model, in order.
ensemble_members(da) == da

\* len(da.attrs.get("ensemble_members", [])): attrs is the attribute
\* dictionary of the stack, a function from attribute names.
sample_size(attrs) ==
    IF "ensemble_members" \in DOMAIN attrs
    THEN Len(attrs["ensemble_members"]) ELSE 0

\* What xr.combine_nested([]) followed by da.model raises, by library version.
EmptyCombineErrors == {"AttributeError", "ValueError"}

ClimateInit ==
    /\ lpc = "init"
    /\ scenario = "585"
    /\ model_paths = <<>>
    /\ lidx = 1
    /\ data = <<>>
    /\ warnings = <<>>
    /\ lerror = "none"

\* load_data is called: fs.glob lists the model directories.
LoadStart ==
    /\ lpc = "init"
    /\ \E s \in Scenarios, paths \in SeqsUpTo(ModelTrees, MaxModels) :
        /\ scenario' = s
        /\ model_paths' = paths
    /\ lpc' = "loop"
    /\ UNCHANGED <<lidx, data, warnings, lerror>>
    /\ UNCHANGED <<loadVars, zonalVars, restVars>>

\* One iteration of the loop over model_paths[:2].
LoadModel ==
    /\ lpc = "loop"
    /\ lidx <= Len(ModelSlice(model_paths))
    /\ LET tree == ModelSlice(model_paths)[lidx]
       IN IF ~validate_model_ssp(tree, scenario)
          THEN /\ warnings' = Append(warnings, <<lidx, "missing required SSP">>)
               /\ UNCHANGED data
          ELSE IF ~validate_model_years(GlobStores(tree, scenario))
          THEN /\ warnings' = Append(warnings, <<lidx, "missing required years">>)
               /\ UNCHANGED data
          ELSE /\ data' = Append(data, lidx)
               /\ UNCHANGED warnings
    /\ lidx' = lidx + 1
    /\ UNCHANGED <<lpc, scenario, model_paths, lerror>>
    /\ UNCHANGED <<loadVars, zonalVars, restVars>>

\* After the loop: xr.combine_nested(data), da.model.values, chunk, return.
LoadCombine ==
    /\ lpc = "loop"
    /\ lidx > Len(ModelSlice(model_paths))
    /\ IF data = <<>>
       THEN /\ lpc' = "failed"
            /\ lerror' \in EmptyCombineErrors
       ELSE /\ lpc' = "returned"
            /\ UNCHANGED lerror
    /\ UNCHANGED <<scenario, model_paths, lidx, data, warnings>>
    /\ UNCHANGED <<loadVars, zonalVars, restVars>>

ClimateNext ==
    \/ LoadStart
    \/ LoadModel
    \/ LoadCombine

\* ------------------------------------------------------------------------
\* validate_model_years and validate_model_ssp called on their own
\* ------------------------------------------------------------------------
RemoveAt(s, i) == SubSeq(s, 1, i - 1) \o SubSeq(s, i + 1, Len(s))

\* A complete calendar, and the lists one step away from it: one store
\* removed, one store listed twice, one store of a year next to the
\* calendar added, one store added or replaced whose name the pattern does
\* not match (another extension, another separator, a year of five digits,
\* a year of three digits).
StoreListsNear(lo, hi) ==
    LET full == StoreNames(YearSeq(lo, hi))
        UnmatchedStores ==
            {[stem |-> <<"_">> \o FormatYear(2015), ext |-> ".nc"],
             [stem |-> <<"-">> \o FormatYear(1950), ext |-> ".zarr"],
             [stem |-> <<"_", "1">> \o FormatYear(2015), ext |-> ".zarr"],
             [stem |-> <<"_", "2", "0", "1">>, ext |-> ".zarr"]}
    IN {full}
       \cup {RemoveAt(full, i) : i \in 1..Len(full)}
       \cup {Append(full, full[i]) : i \in 1..Len(full)}
       \cup {Append(full, StoreName(y)) : y \in {lo - 1, hi + 1}}
       \cup {Append(full, u) : u \in UnmatchedStores}
       \cup {[full EXCEPT ![1] = u] : u \in UnmatchedStores}

StoreInputs ==
    {<<>>, StoreNames(YearSeq(1950, 2100))}
    \cup StoreListsNear(1950, 2014) \cup StoreListsNear(2015, 2100)

\* The trees validate_model_ssp can meet under a model path.
SspTrees ==
    UNION {[D -> {"future"}] :
             D \in SUBSET {<<"ssp", "585">>, <<"", "585">>, <<"ssp", "historical">>,
                           <<"", "historical">>, <<"ssp", "245">>}}

ValidateIdle ==
    /\ ypc = "init"
    /\ zarr_stores = <<>>
    /\ years_valid = FALSE
    /\ spc = "init"
    /\ model_tree = <<>>
    /\ ssp_arg = "585"
    /\ ssp_valid = FALSE

\* The arguments of the two calls: a store list of interest with the
\* default tree, or a tree and scenario of interest with no store.
ValidateInputs ==
    /\ ypc = "init"
    /\ years_valid = FALSE
    /\ spc = "init"
    /\ ssp_valid = FALSE
    /\ \/ /\ zarr_stores \in StoreInputs
          /\ model_tree = <<>>
          /\ ssp_arg = "585"
       \/ /\ zarr_stores = <<>>
          /\ model_tree \in SspTrees
          /\ ssp_arg \in Scenarios

ValidateYears ==
    /\ ypc = "init"
    /\ years_valid' = validate_model_years(zarr_stores)
    /\ ypc' = "done"
    /\ UNCHANGED <<zarr_stores, spc, model_tree, ssp_arg, ssp_valid>>
    /\ UNCHANGED <<loadVars, zonalVars, climateVars, validateOthers>>

ValidateSsp ==
    /\ spc = "init"
    /\ ssp_valid' = validate_model_ssp(model_tree, ssp_arg)
    /\ spc' = "done"
    /\ UNCHANGED <<ypc, zarr_stores, years_valid, model_tree, ssp_arg>>
    /\ UNCHANGED <<loadVars, zonalVars, climateVars, validateOthers>>

ValidateNext ==
    \/ ValidateYears
    \/ ValidateSsp

\* ------------------------------------------------------------------------
\* decade-month labels
\* ------------------------------------------------------------------------
\* f"{decade}-{month:02d}"
DecadeMonthLabel(decade, month) ==
    FormatYear(decade) \o <<"-">>
    \o <<DigitChars[(month \div 10) + 1], DigitChars[(month % 10) + 1]>>

\* int(x[0:4])
LabelDecade(x) ==
    DigitValue(x[1]) * 1000 + DigitValue(x[2]) * 100 + DigitValue(x[3]) * 10
    + DigitValue(x[4])

\* int(x[-2:])
LabelMonth(x) == DigitValue(x[Len(x) - 1]) * 10 + DigitValue(x[Len(x)])

\* ------------------------------------------------------------------------
\* zonal_aggregation_point and zonal_aggregation_linestring on values
\* ------------------------------------------------------------------------
\* The decade_month coordinate of the cube.
CubeLabels == <<DecadeMonthLabel(2020, 1), DecadeMonthLabel(2020, 12)>>

GridCells == {1, 2}

\* Vertex coordinates, and the grid cell extract_points reads for each:
\* "a" and "b" are different coordinates of the same cell.
Coords == {"a", "b", "c"}

CellOf(point) == IF point = "c" THEN 2 ELSE 1

\* The cubes: seven statistics in every cell and decade-month.
Cubes ==
    LET CellStats ==
          {[value_mean |-> 4, value_median |-> 3, value_stddev |-> 2,
            value_min |-> 1, value_max |-> 9, value_q1 |-> 2, value_q3 |-> 6],
           [value_mean |-> 7, value_median |-> 8, value_stddev |-> 1,
            value_min |-> 5, value_max |-> 10, value_q1 |-> 6, value_q3 |-> 9]}
    IN [Range(CubeLabels) -> [GridCells -> CellStats]]

\* Frames of k features with the ids of ids, in order.
FramesOf(ids, k, geoms) ==
    {[i \in 1..k |-> [osm_id |-> ids[i], geometry |-> g[i]]] : g \in [1..k -> geoms]}

\* Line features: list(line.coords) of a LineString has two vertices or
\* more, which may repeat.
LineFrames ==
    UNION {FramesOf(<<4, 5>>, k, UNION {[1..n -> Coords] : n \in 2..MaxVertices})
             : k \in 0..2}

PointFrames == UNION {FramesOf(<<1, 2>>, k, Coords) : k \in 0..2}

\* A value as the fraction num / den: the mean of integers is no integer.
Frac(n, d) == [num |-> n, den |-> d]

FracEq(x, y) == x.num * y.den = y.num * x.den

RECURSIVE SumOf(_, _)
SumOf(f, S) ==
    IF S = {} THEN 0
    ELSE LET x == CHOOSE x \in S : TRUE IN f[x] + SumOf(f, S \ {x})

\* One pandas reducer over the entries S of a column f.
Reduce(how, f, S) ==
    CASE how = "mean" -> Frac(SumOf(f, S), Cardinality(S))
      [] how = "min" ->
            Frac(CHOOSE v \in {f[x] : x \in S} : \A x \in S : v <= f[x], 1)
      [] how = "max" ->
            Frac(CHOOSE v \in {f[x] : x \in S} : \A x \in S : v >= f[x], 1)

\* climate.xvec.extract_points(points, index=True) followed by
\* convert_ds_to_df: one row per point and decade_month label, in the order
\* of the stacked (geometry, decade_month) dimension.
ExtractPoints(cube, points) ==
    LET d == Len(CubeLabels)
    IN [j \in 1..(Len(points) * d) |->
          LET pt == points[((j - 1) \div d) + 1]
              label == CubeLabels[((j - 1) % d) + 1]
          IN [osm_id |-> pt.osm_id, geometry |-> pt.geometry,
              decade |-> LabelDecade(label), month |-> LabelMonth(label)]
             @@ cube[label][CellOf(pt.geometry)]]

\* The loop over infra.iterrows(): (idx, Point(point)) for every vertex.
RECURSIVE SampledPoints(_, _)
SampledPoints(frame, i) ==
    IF i > Len(frame) THEN <<>>
    ELSE [k \in 1..Len(frame[i].geometry) |->
             [osm_id |-> frame[i].osm_id, geometry |-> frame[i].geometry[k]]]
         \o SampledPoints(frame, i + 1)

\* df.drop_duplicates(): a row equal to an earlier row is dropped.
DropDuplicatesKeepAll(rows) == {i \in 1..Len(rows) : TRUE}

DropDuplicates(rows) ==
    {i \in 1..Len(rows) : \A j \in 1..(i - 1) : rows[j] # rows[i]}

\* The reducer .agg() applies to each statistic column.
LineReducerAllMean(column) == "mean"

LineReducer(column) ==
    CASE column \in {"value_mean", "value_median", "value_stddev"} -> "mean"
      [] column \in {"value_min", "value_q1"} -> "min"
      [] column \in {"value_max", "value_q3"} -> "max"

\* .groupby([ID_COLUMN, "decade", "month"]).agg({...}).reset_index() over
\* the rows kept: one row per group key.
GroupByAgg(rows, kept) ==
    LET GroupKey(row) == <<row.osm_id, row.decade, row.month>>
    IN
    {[c \in {"osm_id", "decade", "month"} \cup StatColumns |->
        LET group == {i \in kept : GroupKey(rows[i]) = key}
        IN CASE c = "osm_id" -> key[1]
             [] c = "decade" -> key[2]
             [] c = "month" -> key[3]
             [] OTHER -> Reduce(LineReducer(c), [i \in group |-> rows[i][c]], group)]
     : key \in {GroupKey(rows[i]) : i \in kept}}

zonal_aggregation_point(cube, frame) == Range(ExtractPoints(cube, frame))

zonal_aggregation_linestring(cube, frame) ==
    LET sampled_points == SampledPoints(frame, 1)
    IN IF sampled_points # <<>>
       THEN LET df_rows == ExtractPoints(cube, sampled_points)
            IN GroupByAgg(df_rows, DropDuplicates(df_rows))
       ELSE {}

SamplingIdle ==
    /\ climate = <<>>
    /\ point_features = <<>>
    /\ line_features = <<>>
    /\ zonal_agg_method = "max"
    /\ points_pc = "init"
    /\ points_df = {}
    /\ lines_pc = "init"
    /\ lines_df = {}

\* The arguments: a cube with line features of interest, or with point
\* features of interest.
SamplingInputs ==
    /\ climate \in Cubes
    /\ \/ line_features \in LineFrames /\ point_features = <<>>
       \/ line_features = <<>> /\ point_features \in PointFrames
    /\ zonal_agg_method \in {"max", "mean"}
    /\ points_pc = "init"
    /\ points_df = {}
    /\ lines_pc = "init"
    /\ lines_df = {}

\* zonal_aggregation calls zonal_aggregation_point.
SamplePoints ==
    /\ points_pc = "init"
    /\ points_df' = zonal_aggregation_point(climate, point_features)
    /\ points_pc' = "done"
    /\ UNCHANGED <<climate, point_features, line_features, zonal_agg_method,
                   lines_pc, lines_df>>
    /\ UNCHANGED <<loadVars, zonalVars, climateVars, samplingOthers>>

\* zonal_aggregation calls zonal_aggregation_linestring.
SampleLines ==
    /\ points_pc = "done"
    /\ lines_pc = "init"
    /\ lines_df' = zonal_aggregation_linestring(climate, line_features)
    /\ lines_pc' = "done"
    /\ UNCHANGED <<climate, point_features, line_features, zonal_agg_method,
                   points_pc, points_df>>
    /\ UNCHANGED <<loadVars, zonalVars, climateVars, samplingOthers>>

SamplingNext ==
    \/ SamplePoints
    \/ SampleLines

\* ------------------------------------------------------------------------
\* decade_month_calc
\* ------------------------------------------------------------------------
\* (ds["time.year"] // 10) * 10
DecadeOfYear(year) == year

DecadeOf(year) == (year \div 10) * 10

Samples == [year : {2019, 2020, 2029, 2030}, month : {1, 12}, value : {1, 4}]

\* The value of the sample of a year and month in a generated series.
SeriesValue(kind, year, month) ==
    CASE kind = "constant" -> 3
      [] kind = "by_year" -> year % 10
      [] kind = "by_month" -> month
      [] kind = "by_both" -> (year % 10) * month

\* A monthly series of n years from start: 12 * n samples in time order.
MonthlySeries(start, n, kind) ==
    [i \in 1..(12 * n) |->
        LET y == start + ((i - 1) \div 12)
            m == ((i - 1) % 12) + 1
        IN [year |-> y, month |-> m, value |-> SeriesValue(kind, y, m)]]

DatasetInputs ==
    SeqsUpTo(Samples, MaxSamples)
    \cup {MonthlySeries(start, 10, kind) :
             start \in {1950, 2015, 2020},
             kind \in {"constant", "by_year", "by_month", "by_both"}}

\* The decade_month coordinate assigned along the time axis, then
\* ds.groupby("decade_month").mean()
decade_month_calc(samples) ==
    LET labels ==
          [i \in 1..Len(samples) |->
              DecadeMonthLabel(DecadeOf(samples[i].year), samples[i].month)]
    IN {[decade_month |-> label,
         value |-> LET group == {i \in 1..Len(samples) : labels[i] = label}
                   IN Reduce("mean", [i \in group |-> samples[i].value], group)]
        : label \in Range(labels)}

CalcIdle ==
    /\ cpc = "init"
    /\ ds = <<>>
    /\ ds_out = {}

CalcInputs ==
    /\ cpc = "init"
    /\ ds \in DatasetInputs
    /\ ds_out = {}

DecadeMonthCalc ==
    /\ cpc = "init"
    /\ ds_out' = decade_month_calc(ds)
    /\ cpc' = "done"
    /\ UNCHANGED ds
    /\ UNCHANGED <<loadVars, zonalVars, climateVars, calcOthers>>

\* ------------------------------------------------------------------------
\* reduce_model_stats
\* ------------------------------------------------------------------------
\* da.quantile(k / 4, dim="model") with linear interpolation between the
\* order statistics around position (n - 1) * k / 4.
Quantile(values, k) ==
    LET sorted == SortSeq(values, LAMBDA a, b : a < b)
        h == (Len(values) - 1) * k
        lo == (h \div 4) + 1
        hi == IF h % 4 = 0 THEN lo ELSE lo + 1
    IN Frac(sorted[lo] * (4 - (h % 4)) + sorted[hi] * (h % 4), 4)

\* da.median(dim="model")
MedianInPlace(values) == Frac(4 * values[(Len(values) + 1) \div 2], 4)

Median(values) == Quantile(values, 2)

\* da.std(dim="model"), the population standard deviation, kept as its
\* square: (n * sum(x^2) - sum(x)^2) / n^2.
Variance(values) ==
    LET idx == 1..Len(values)
        total == SumOf(values, idx)
        squares == SumOf([i \in idx |-> values[i] * values[i]], idx)
    IN Frac(Len(values) * squares - total * total, Len(values) * Len(values))

\* The seven statistics of one cell over the model axis.
ModelStats(values) ==
    [value_mean |-> Reduce("mean", values, 1..Len(values)),
     value_median |-> Median(values),
     value_stddev |-> Variance(values),
     value_min |-> Reduce("min", values, 1..Len(values)),
     value_max |-> Reduce("max", values, 1..Len(values)),
     value_q1 |-> Quantile(values, 1),
     value_q3 |-> Quantile(values, 3)]

reduce_model_stats(da, attrs) ==
    [stats |-> [cell \in GridCells |->
                  ModelStats([m \in 1..Len(da) |-> da[m][cell]])],
     sample_size |-> sample_size(attrs)]

StatsIdle ==
    /\ stats_pc = "init"
    /\ stack = <<>>
    /\ perm = <<>>
    /\ stats_ds = <<>>

\* A stack of one model or more, as load_data returns it, each model grid
\* holding a value in every cell (and decade-month), and an order of the
\* model axis.
StatsInputs ==
    /\ stats_pc = "init"
    /\ \E n \in 1..MaxStack :
          /\ stack \in [1..n -> [GridCells -> {1, 2, 5}]]
          /\ perm \in Permutations(1..n)
    /\ stats_ds = <<>>

\* process_climate.main: reduce_model_stats on the stack, its model axis in
\* the order perm; the attributes are those load_data assigned.
ReduceModelStats ==
    /\ stats_pc = "init"
    /\ stats_ds' = reduce_model_stats(
                       [m \in 1..Len(stack) |-> stack[perm[m]]],
                       [a \in {"ensemble_members"} |-> ensemble_members(perm)])
    /\ stats_pc' = "done"
    /\ UNCHANGED <<stack, perm>>
    /\ UNCHANGED <<loadVars, zonalVars, climateVars, statsOthers>>

\* ------------------------------------------------------------------------
\* run.py and pipeline.main
\* ------------------------------------------------------------------------
\* SimpleConnectionPool(minconn=1, maxconn=3, ...)
minconn == 1
maxconn == 3

LOAD_GEOTIFFS(script) == script = "nasa_nex/run.py"

\* The statements of pipeline.main after the pool is built, in order.
StagesOf(script) ==
    <<"get_state_bbox", "process_climate", "create_metadata">>
    \o (IF LOAD_GEOTIFFS(script) THEN <<"generate_geotiff", "upload_files">>
        ELSE <<>>)
    \o <<"getconn_intersection", "infra_intersection", "putconn_intersection",
         "getconn_load", "infra_intersection_load", "putconn_load", "return">>

StageAfter(script, st) ==
    LET stages == StagesOf(script)
        i == CHOOSE i \in 1..Len(stages) : stages[i] = st
    IN stages[i + 1]

\* The stage that works on the connection a getconn stage obtains, and the
\* stage that returns it.
HolderOf(st) ==
    CASE st \in {"getconn_intersection", "putconn_intersection"} -> "infra_intersection"
      [] st \in {"getconn_load", "putconn_load"} -> "infra_intersection_load"

\* connection_pool.putconn(conn): the connection leaves the used ones.
PutConnKeepUsed(u, holder) == u

PutConnUsed(u, holder) == [c \in {k \in DOMAIN u : u[k] # holder} |-> u[c]]

PipeIdle ==
    /\ entry = "scenariomip/pipeline.py"
    /\ ssp_list = <<>>
    /\ ssp_idx = 1
    /\ stage = "not_started"
    /\ idle = {}
    /\ used = <<>>
    /\ opened = 0
    /\ run_log = <<>>
    /\ perror = "none"
    /\ invoked = <<>>
    /\ done = <<>>
    /\ reduced_in = {}

\* A script is started: run.py with its list of SSPs, pipeline.py with the
\* one SSP of its arguments.
RunStart ==
    /\ stage = "not_started"
    /\ \E script \in {"nasa_nex/run.py", "scenariomip/run.py",
                       "scenariomip/pipeline.py"}, n \in 1..MaxSsps :
          /\ script = "scenariomip/pipeline.py" => n = 1
          /\ entry' = script
          /\ ssp_list' = [i \in 1..n |-> i]
    /\ stage' = "call_main"
    /\ UNCHANGED <<ssp_idx, idle, used, opened, run_log, perror, invoked, done,
                   reduced_in>>
    /\ UNCHANGED <<loadVars, zonalVars, climateVars, pipeOthers>>

\* What the script does when pipeline.main raised at stage st:
\* scenariomip/run.py logs the failure and goes on with the next SSP, the
\* other scripts end with the exception.
Raised(st) ==
    IF entry = "scenariomip/run.py"
    THEN /\ run_log' = Append(run_log, "FAILED")
         /\ ssp_idx' = ssp_idx + 1
         /\ stage' = "call_main"
         /\ UNCHANGED perror
    ELSE /\ perror' = st
         /\ stage' = "aborted"
         /\ UNCHANGED <<run_log, ssp_idx>>

\* pipeline.main is called for the next SSP and builds its pool, which
\* opens minconn connections. scenariomip/run.py passes ssp alone, so the
\* call raises TypeError before the body runs.
CallMain ==
    /\ stage = "call_main"
    /\ ssp_idx <= Len(ssp_list)
    /\ invoked' = Append(invoked, ssp_list[ssp_idx])
    /\ done' = <<>>
    /\ reduced_in' = {}
    /\ \/ /\ entry # "scenariomip/run.py"
          /\ idle' = 1..minconn
          /\ used' = <<>>
          /\ opened' = minconn
          /\ stage' = StagesOf(entry)[1]
          /\ UNCHANGED <<ssp_idx, run_log, perror>>
       \/ /\ idle' = {}
          /\ used' = <<>>
          /\ opened' = 0
          /\ Raised("call_main")
    /\ UNCHANGED <<entry, ssp_list>>
    /\ UNCHANGED <<loadVars, zonalVars, climateVars, pipeOthers>>

\* A statement of pipeline.main that touches no pooled connection, or the
\* body of a stage working on the connection it was given: it completes or
\* raises. process_climate.main of scenariomip takes none of the keyword
\* arguments scenariomip/pipeline.py passes, so that call always raises.
\* The dataset process_climate.main of nasa_nex returns is a task graph
\* (xr.open_mfdataset, reduce_model_stats on chunked arrays): no statistic
\* is computed before a later stage asks for values, which rio.to_raster
\* does in generate_geotiff and to_dataframe and climate.compute() do in
\* infra_intersection.
Stage ==
    /\ stage \in {"get_state_bbox", "process_climate", "create_metadata",
                  "generate_geotiff", "upload_files", "infra_intersection",
                  "infra_intersection_load"}
    /\ \/ /\ stage = "process_climate" => entry = "nasa_nex/run.py"
          /\ stage' = StageAfter(entry, stage)
          /\ done' = Append(done, stage)
          /\ reduced_in' = IF stage \in {"generate_geotiff", "infra_intersection"}
                           THEN reduced_in \cup {stage}
                           ELSE reduced_in
          /\ UNCHANGED <<ssp_idx, run_log, perror>>
       \/ /\ Raised(stage)
          /\ UNCHANGED <<done, reduced_in>>
    /\ UNCHANGED <<entry, ssp_list, idle, used, opened, invoked>>
    /\ UNCHANGED <<loadVars, zonalVars, climateVars, pipeOthers>>

\* connection_pool.getconn(): an idle connection if there is one, a new
\* one while fewer than maxconn are used, PoolError otherwise.
GetConn ==
    /\ stage \in {"getconn_intersection", "getconn_load"}
    /\ IF idle # {}
       THEN /\ \E c \in idle :
                 /\ idle' = idle \ {c}
                 /\ used' = (c :> HolderOf(stage)) @@ used
            /\ stage' = StageAfter(entry, stage)
            /\ done' = Append(done, stage)
            /\ UNCHANGED <<opened, ssp_idx, run_log, perror>>
       ELSE IF Cardinality(DOMAIN used) < maxconn
       THEN /\ used' = ((opened + 1) :> HolderOf(stage)) @@ used
            /\ opened' = opened + 1
            /\ stage' = StageAfter(entry, stage)
            /\ done' = Append(done, stage)
            /\ UNCHANGED <<idle, ssp_idx, run_log, perror>>
       ELSE /\ Raised(stage)
            /\ UNCHANGED <<idle, used, opened, done>>
    /\ UNCHANGED <<entry, ssp_list, invoked, reduced_in>>
    /\ UNCHANGED <<loadVars, zonalVars, climateVars, pipeOthers>>

\* connection_pool.putconn(conn): the connection is kept idle while fewer
\* than minconn are idle, closed otherwise.
PutConn ==
    /\ stage \in {"putconn_intersection", "putconn_load"}
    /\ used' = PutConnUsed(used, HolderOf(stage))
    /\ idle' = IF Cardinality(idle) < minconn
               THEN idle \cup {c \in DOMAIN used : used[c] = HolderOf(stage)}
               ELSE idle
    /\ stage' = StageAfter(entry, stage)
    /\ done' = Append(done, stage)
    /\ UNCHANGED <<entry, ssp_list, ssp_idx, opened, run_log, perror, invoked,
                   reduced_in>>
    /\ UNCHANGED <<loadVars, zonalVars, climateVars, pipeOthers>>

\* pipeline.main returns to the script.
Return ==
    /\ stage = "return"
    /\ run_log' = IF entry = "scenariomip/pipeline.py" THEN run_log
                  ELSE Append(run_log, "SUCCEEDED")
    /\ ssp_idx' = ssp_idx + 1
    /\ stage' = "call_main"
    /\ UNCHANGED <<entry, ssp_list, idle, used, opened, perror, invoked, done,
                   reduced_in>>
    /\ UNCHANGED <<loadVars, zonalVars, climateVars, pipeOthers>>

\* The script has gone through its SSPs.
Exit ==
    /\ stage = "call_main"
    /\ ssp_idx > Len(ssp_list)
    /\ stage' = "exited"
    /\ UNCHANGED <<entry, ssp_list, ssp_idx, idle, used, opened, run_log, perror,
                   invoked, done, reduced_in>>
    /\ UNCHANGED <<loadVars, zonalVars, climateVars, pipeOthers>>

PipeNext ==
    \/ RunStart
    \/ CallMain
    \/ Stage
    \/ GetConn
    \/ PutConn
    \/ Return
    \/ Exit

\* ------------------------------------------------------------------------
\* process_climate: longitude normalization and bounding box
\* ------------------------------------------------------------------------
\* ((x + 180) % 360) - 180
NormalizeLonIdentity(x) == x

NormalizeLon(x) == ((x + 180) % 360) - 180

\* assign_coords with the remapped longitudes, then sortby(x_dim).
NormalizeAxis(x) ==
    SortSeq([i \in 1..Len(x) |-> NormalizeLon(x[i])], LAMBDA a, b : a < b)

\* .sel({y_dim: slice(min_lat, max_lat), x_dim: slice(min_lon, max_lon)}):
\* on an ascending axis a label slice keeps the labels between its bounds,
\* both included; on another axis it runs from the position of one bound to
\* the position of the other and raises KeyError for a bound that is no
\* label of the axis.
Sel(x, y, bbox) ==
    LET Ascending(axis) == \A i \in 1..(Len(axis) - 1) : axis[i] < axis[i + 1]
        Pos(axis, v) == CHOOSE i \in 1..Len(axis) : axis[i] = v
        KeyError(axis, lo, hi) ==
            ~Ascending(axis) /\ ~({lo, hi} \subseteq Range(axis))
        Slice(axis, lo, hi) ==
            IF Ascending(axis)
            THEN SelectSeq(axis, LAMBDA v : lo <= v /\ v <= hi)
            ELSE SubSeq(axis, Pos(axis, lo), Pos(axis, hi))
    IN IF \/ KeyError(x, bbox.min_lon, bbox.max_lon)
          \/ KeyError(y, bbox.min_lat, bbox.max_lat)
       THEN [x |-> <<>>, y |-> <<>>, sliced |-> x, error |-> "KeyError"]
       ELSE [x |-> Slice(x, bbox.min_lon, bbox.max_lon),
             y |-> Slice(y, bbox.min_lat, bbox.max_lat),
             sliced |-> x, error |-> "none"]

\* load_data of nasa_nex: remap, sort, then the slice if bbox is given.
load_data_grid(arg) ==
    IF DOMAIN arg.bbox # {}
    THEN Sel(NormalizeAxis(arg.x), arg.y, arg.bbox)
    ELSE [x |-> NormalizeAxis(arg.x), y |-> arg.y, sliced |-> <<>>,
          error |-> "none"]

\* main of scenariomip: the remap, the sort and the slice are all inside
\* the branch of convert_360_lon.
main_grid(arg) ==
    IF arg.convert_360_lon
    THEN IF DOMAIN arg.bbox # {}
         THEN Sel(NormalizeAxis(arg.x), arg.y, arg.bbox)
         ELSE [x |-> NormalizeAxis(arg.x), y |-> arg.y, sliced |-> <<>>,
               error |-> "none"]
    ELSE [x |-> arg.x, y |-> arg.y, sliced |-> <<>>, error |-> "none"]

\* The axes of the grids and the boxes: MaxLon longitudes evenly spaced
\* from 0 (the [0, 360) convention) or from -180, latitudes ascending as in
\* the CMIP6 grids; bbox is None or a dict of the four bounds.
GridArgs ==
    LET Lons(start) == [i \in 1..MaxLon |-> start + (i - 1) * (360 \div MaxLon)]
        Boxes ==
            {<<>>}
            \cup {[min_lon |-> a, max_lon |-> b, min_lat |-> c, max_lat |-> d] :
                    <<a, b>> \in {p \in {-180, -135, -90, 0, 135} \X
                                        {-180, -135, -90, 0, 135} : p[1] <= p[2]},
                    <<c, d>> \in {p \in {-45, 0, 30} \X {-45, 0, 30} : p[1] <= p[2]}}
    IN {a \in [variant : {"nasa_nex", "scenariomip"},
               convert_360_lon : BOOLEAN,
               x : {Lons(0), Lons(-180)},
               y : {<<-45, 0, 45>>},
               bbox : Boxes] :
          /\ a.variant = "nasa_nex" => a.convert_360_lon
          /\ ~a.convert_360_lon => a.x = Lons(-180)}

GridIdle ==
    /\ gpc = "init"
    /\ garg = <<>>
    /\ gout = <<>>

\* The spatial steps of load_data (nasa_nex) or of main (scenariomip).
ProcessGrid ==
    /\ gpc = "init"
    /\ gout' = IF garg.variant = "nasa_nex" THEN load_data_grid(garg)
               ELSE main_grid(garg)
    /\ gpc' = "done"
    /\ UNCHANGED garg
    /\ UNCHANGED <<stageVars, dbVars, mainVars>>

\* ------------------------------------------------------------------------
\* database.get_database_conn (src/app and src/api/v1/app)
\* ------------------------------------------------------------------------
\* How a call that left the loop ends. In src/app/database.py the test
\* after the loop is tries < 3, and return conn reads a local that only a
\* successful attempt binds. In src/api/v1/app/database.py, which returns
\* conn from inside the loop, the test is tries >= 3.
AfterLoopResult(copy, t, c) ==
    IF copy = "app"
    THEN IF t < 3 THEN "ConnectionRefusedError"
         ELSE IF c = 0 THEN "UnboundLocalError" ELSE "returned"
    ELSE IF t >= 3 THEN "ConnectionRefusedError" ELSE "returned"

DbIdle ==
    /\ db_copy = "app"
    /\ db_pc = "idle"
    /\ tries = 0
    /\ conn = 0
    /\ attempts = 0
    /\ db_log = <<>>

\* execute_query calls get_database_conn: tries = 0.
DbCall ==
    /\ db_pc = "idle"
    /\ Len(db_log) < MaxCalls
    /\ IF db_log = <<>> THEN db_copy' \in {"app", "api_v1"} ELSE UNCHANGED db_copy
    /\ db_pc' = "loop"
    /\ tries' = 0
    /\ conn' = 0
    /\ attempts' = 0
    /\ UNCHANGED db_log
    /\ UNCHANGED <<stageVars, gridVars, mainVars>>

\* One iteration of while tries < 3: pg.connect returns or raises.
Connect ==
    /\ db_pc = "loop"
    /\ tries < 3
    /\ attempts' = attempts + 1
    /\ \/ /\ conn' = attempts'
          /\ UNCHANGED tries
          /\ IF db_copy = "api_v1"
             THEN /\ db_log' = Append(db_log, [result |-> "returned",
                                               attempts |-> attempts',
                                               failed |-> tries])
                  /\ db_pc' = "idle"
             ELSE db_pc' = "after_loop" /\ UNCHANGED db_log
       \/ /\ tries' = tries + 1
          /\ db_pc' = IF tries' < 3 THEN "loop" ELSE "after_loop"
          /\ UNCHANGED <<conn, db_log>>
    /\ UNCHANGED db_copy
    /\ UNCHANGED <<stageVars, gridVars, mainVars>>

\* The statements after the loop.
AfterLoop ==
    /\ db_pc = "after_loop"
    /\ UNCHANGED <<db_copy, tries, conn, attempts>>
    /\ db_log' = Append(db_log, [result |-> AfterLoopResult(db_copy, tries, conn),
                                 attempts |-> attempts, failed |-> tries])
    /\ db_pc' = "idle"
    /\ UNCHANGED <<stageVars, gridVars, mainVars>>

\* ------------------------------------------------------------------------
\* infra_intersection.main up to the call of zonal_aggregation
\* ------------------------------------------------------------------------
\* infra_gdf.sample(100)
SampleN == 100

\* DataFrame.sample(n): n rows drawn without replacement. The draws are
\* given by the rows left out, KSubsets(S, k) being the subsets of S with k
\* elements.
Sample(ids, n) ==
    LET RECURSIVE KSubsets(_, _)
        KSubsets(S, k) ==
            IF k = 0 THEN {{}}
            ELSE UNION {{T \cup {x} : T \in KSubsets({y \in S : y > x}, k - 1)}
                          : x \in S}
    IN {ids \ out : out \in KSubsets(ids, Cardinality(ids) - n)}

MainIdle ==
    /\ mpc = "init"
    /\ infra_data = {}
    /\ infra_gdf = {}
    /\ merror = "none"

\* utils.query_db returns the features of the OSM tables.
QueryDb ==
    /\ mpc = "init"
    /\ \E n \in {0, 1, SampleN - 1} \cup (SampleN..(SampleN + MaxSurplus)) :
          infra_data' = 1..n
    /\ mpc' = "queried"
    /\ UNCHANGED <<infra_gdf, merror>>
    /\ UNCHANGED <<stageVars, gridVars, dbVars>>

\* infra_gdf = infra_gdf.sample(100), then zonal_aggregation is called
\* with infra_gdf.
SampleInfra ==
    /\ mpc = "queried"
    /\ IF Cardinality(infra_data) < SampleN
       THEN /\ merror' = "ValueError"
            /\ mpc' = "raised"
            /\ UNCHANGED infra_gdf
       ELSE /\ infra_gdf' \in Sample(infra_data, SampleN)
            /\ mpc' = "zonal_aggregation"
            /\ UNCHANGED merror
    /\ UNCHANGED infra_data
    /\ UNCHANGED <<stageVars, gridVars, dbVars>>

\* ------------------------------------------------------------------------
\* Specifications
\* ------------------------------------------------------------------------
BaseInit == LoadInit /\ ZonalInit /\ ClimateInit

Init ==
    BaseInit /\ ValidateIdle /\ SamplingIdle /\ CalcIdle /\ StatsIdle
    /\ PipeIdle /\ GridIdle /\ DbIdle /\ MainIdle

GridInit ==
    BaseInit /\ ValidateIdle /\ SamplingIdle /\ CalcIdle /\ StatsIdle
    /\ PipeIdle /\ DbIdle /\ MainIdle
    /\ gpc = "init"
    /\ garg \in GridArgs
    /\ gout = <<>>

SpecGrid == GridInit /\ [][ProcessGrid]_vars

SpecDb == Init /\ [][DbCall \/ Connect \/ AfterLoop]_vars

SpecMain == Init /\ [][QueryDb \/ SampleInfra]_vars

ValidateInit ==
    BaseInit /\ ValidateInputs /\ SamplingIdle /\ CalcIdle /\ StatsIdle
    /\ PipeIdle /\ GridIdle /\ DbIdle /\ MainIdle

SpecValidate == ValidateInit /\ [][ValidateNext]_vars

SamplingInit ==
    BaseInit /\ ValidateIdle /\ SamplingInputs /\ CalcIdle /\ StatsIdle
    /\ PipeIdle /\ GridIdle /\ DbIdle /\ MainIdle

SpecSampling == SamplingInit /\ [][SamplingNext]_vars

CalcInit ==
    BaseInit /\ ValidateIdle /\ SamplingIdle /\ CalcInputs /\ StatsIdle
    /\ PipeIdle /\ GridIdle /\ DbIdle /\ MainIdle

SpecCalc == CalcInit /\ [][DecadeMonthCalc]_vars

StatsInit ==
    BaseInit /\ ValidateIdle /\ SamplingIdle /\ CalcIdle /\ StatsInputs
    /\ PipeIdle /\ GridIdle /\ DbIdle /\ MainIdle

SpecStats == StatsInit /\ [][ReduceModelStats]_vars

SpecPipeline == Init /\ [][PipeNext]_vars

Next == LoadNext

Spec == Init /\ [][Next]_vars

SpecZonal == Init /\ [][ZonalNext]_vars

SpecClimate == Init /\ [][ClimateNext]_vars

\* ------------------------------------------------------------------------
\* Properties of infra_intersection_load (checked under Spec)
\* ------------------------------------------------------------------------
DfKeys(r) == {NaturalKey(StagingRow(df[r][i], ssp[r])) : i \in 1..Len(df[r])}

RowsOfRun(table, r) == {t \in table : t.run = r}

NoRepeat(s) == \A i, j \in 1..Len(s) : s[i] = s[j] => i = j

IsPrefix(s, t) == Len(s) <= Len(t) /\ \A i \in 1..Len(s) : s[i] = t[i]

\* C1: the fact table holds at most one row for each natural key
\* (osm_id, decade, month, ssp), whatever loads ran, failed or overlapped.
UniqueNaturalKey ==
    \A a, b \in fact : NaturalKey(a) = NaturalKey(b) => a = b

\* Two loads that share a key have both committed.
UniqueNaturalKeyWitness ==
    \E r1, r2 \in Runs :
        /\ r1 # r2
        /\ pc[r1] = "committed" /\ pc[r2] = "committed"
        /\ DfKeys(r1) \cap DfKeys(r2) # {}
        /\ RowsOfRun(fact, r1) # {}

\* C2: when one of the four commands raised, no row of that execution is in
\* the committed fact table, no temp table of it is committed, the failed
\* command is the last one issued (the exception left main, no commit) and
\* no command was issued twice; once its connection is closed nothing of
\* the execution is left.
RollbackOnFailure ==
    \A r \in Runs :
        pc[r] \in {"raised", "closed"} =>
            /\ RowsOfRun(fact, r) = {}
            /\ sessTables[r] = {}
            /\ failedAt[r] \in {"create", "copy", "insert", "drop"}
            /\ steps[r][Len(steps[r])] = failedAt[r]
            /\ "commit" \notin Range(steps[r])
            /\ NoRepeat(steps[r])
            /\ (pc[r] = "closed" =>
                    /\ txnTables[r] = {}
                    /\ pending[r] = {}
                    /\ staging[r] = <<>>)

\* The drop command raised after the insert-select had written rows.
RollbackOnFailureWitness ==
    \E r \in Runs :
        /\ pc[r] = "raised"
        /\ failedAt[r] = "drop"
        /\ pending[r] # {}
        /\ txnTables[r] # {}

\* C3: while an execution runs with a dataframe whose keys are all in the
\* fact table, no step of it adds, removes or changes a fact row, and each
\* of its keys has exactly one row.
RerunIsNoOp ==
    [][\A r \in Runs :
          (pc[r] # "idle" /\ pc'[r] # pc[r] /\ DfKeys(r) \subseteq KeysOf(fact)) =>
              /\ fact' = fact
              /\ \A k \in DfKeys(r) :
                    Cardinality({t \in fact' : NaturalKey(t) = k}) = 1]_vars

\* The same non-empty dataframe was loaded twice; the second load added nothing.
RerunIsNoOpWitness ==
    \E r1, r2 \in Runs :
        /\ r1 # r2
        /\ pc[r1] = "committed" /\ pc[r2] = "committed"
        /\ df[r1] = df[r2] /\ ssp[r1] = ssp[r2] /\ df[r1] # <<>>
        /\ RowsOfRun(fact, r1) # {}
        /\ RowsOfRun(fact, r2) = {}

\* C4: at the commit of a load every row already in the fact table is still
\* there with its values, a key that was there has no other row, and every
\* key of the load that was not there has a row written by this load from
\* one of its dataframe rows.
FirstWriterWins ==
    [][\A r \in Runs :
          (pc[r] = "dropped" /\ pc'[r] = "committed") =>
              /\ \A t \in fact : t \in fact'
              /\ \A k \in DfKeys(r) \cap KeysOf(fact) :
                    {t \in fact' : NaturalKey(t) = k} = {t \in fact : NaturalKey(t) = k}
              /\ \A k \in DfKeys(r) \ KeysOf(fact) :
                    \E t \in fact' :
                        /\ NaturalKey(t) = k
                        /\ t.run = r
                        /\ t.idx \in 1..Len(df[r])
                        /\ t.value = df[r][t.idx].value
                        /\ NaturalKey(StagingRow(df[r][t.idx], ssp[r])) = k]_vars

\* A committed load had one row whose key was held by an earlier load with
\* another value, and one row with a new key, which it inserted.
FirstWriterWinsWitness ==
    \E r \in Runs :
        /\ pc[r] = "committed"
        /\ RowsOfRun(fact, r) # {}
        /\ \E i \in 1..Len(df[r]) : \E t \in fact :
              /\ t.run # r
              /\ NaturalKey(t) = NaturalKey(StagingRow(df[r][i], ssp[r]))
              /\ t.value # df[r][i].value

\* C5: the commands of an execution are issued in the order create, copy,
\* insert, drop, commit; the copy puts the whole dataframe into staging; no
\* row and no temp table of an execution is committed before its commit,
\* and after the commit nothing of it is left uncommitted.
SingleTransaction ==
    \A r \in Runs :
        /\ IsPrefix(steps[r], <<"create", "copy", "insert", "drop", "commit">>)
        /\ (pc[r] = "copied" =>
                /\ Len(staging[r]) = Len(df[r])
                /\ \A i \in 1..Len(df[r]) : staging[r][i] = StagingRow(df[r][i], ssp[r]))
        /\ (pc[r] # "committed" => RowsOfRun(fact, r) = {} /\ sessTables[r] = {})
        /\ (pc[r] = "committed" =>
                /\ steps[r] = <<"create", "copy", "insert", "drop", "commit">>
                /\ pending[r] = {}
                /\ txnTables[r] = {}
                /\ sessTables[r] = {})

\* One load has committed its rows while another one holds inserted rows in
\* its open transaction.
SingleTransactionWitness ==
    \E r1, r2 \in Runs :
        /\ pc[r1] = "committed" /\ RowsOfRun(fact, r1) # {}
        /\ pc[r2] = "inserted" /\ pending[r2] # {}

Running(r) == pc[r] \in {"started", "created", "copied", "inserted", "dropped"}

\* C6: two executions that overlap in time never have the same staging
\* table id, also when they start within the same clock second.
StagingNamesDiffer ==
    \A r1, r2 \in Runs :
        (r1 # r2 /\ Running(r1) /\ Running(r2)) => tableId[r1] # tableId[r2]

\* ------------------------------------------------------------------------
\* Properties of infra_intersection (checked under SpecZonal)
\* ------------------------------------------------------------------------
RaisedFutures == {i \in 1..Len(futures) : futures[i].state = "raised"}

ReturnedChunks == {i \in 1..Len(futures) : futures[i].state = "returned"}

FeaturesOfChunks(S) == UNION {Range(futures[i].geometry) : i \in S}

\* C7: when a polygon worker raised, zonal_aggregation does not raise: the
\* failure is logged and the rows of all points, all lines and all other
\* polygon chunks are returned, for every set of failing chunks.
WorkerFailureIsolated ==
    (RaisedFutures # {} /\ zpc \in {"raised", "returned"}) =>
        /\ zpc = "returned"
        /\ zlog = Cardinality(RaisedFutures)
        /\ zdf = df_point \cup df_linestring
                    \cup {[osm_id |-> i, kind |-> "polygon", nulls |-> NullsOf(infra[i])] :
                            i \in FeaturesOfChunks(ReturnedChunks)}

\* C8: the failed-feature count main logs equals the number of features of
\* the polygon chunks whose worker raised.
FailedCountIsChunkSize ==
    (zpc = "main_done" /\ RaisedFutures # {}) =>
        failed_aggregations = Cardinality(FeaturesOfChunks(RaisedFutures))

\* C9: once the polygon features are split there are exactly
\* min(worker_count, feature_count) chunks, none empty, pairwise disjoint,
\* holding every polygon feature exactly once, and one task per chunk was
\* submitted with its chunk and the computed cube.
ChunksPartitionPolygons ==
    (zpc \notin {"init", "point", "line", "polygon"} /\ climate_computed) =>
        /\ Len(geometry_chunks) = Min(cpu, Len(polygon_infra))
        /\ \A i \in 1..Len(geometry_chunks) : geometry_chunks[i] # <<>>
        /\ \A i, j \in 1..Len(geometry_chunks) :
              i # j => Range(geometry_chunks[i]) \cap Range(geometry_chunks[j]) = {}
        /\ \A p \in Range(polygon_infra) :
              Cardinality({<<i, k>> \in (1..Len(geometry_chunks)) \X (1..Len(polygon_infra)) :
                              /\ k <= Len(geometry_chunks[i])
                              /\ geometry_chunks[i][k] = p}) = 1
        /\ UNION {Range(geometry_chunks[i]) : i \in 1..Len(geometry_chunks)}
              = Range(polygon_infra)
        /\ Len(futures) = Len(geometry_chunks)
        /\ \A i \in 1..Len(futures) :
              /\ futures[i].geometry = geometry_chunks[i]
              /\ futures[i].computed

\* Three polygons were split unevenly over two workers and submitted.
ChunksPartitionPolygonsWitness ==
    /\ zpc = "waiting"
    /\ Len(polygon_infra) = 3
    /\ Len(geometry_chunks) = 2
    /\ Len(geometry_chunks[1]) = 2
    /\ Len(futures) = 2

IdsOf(rows) == {r.osm_id : r \in rows}

\* C22: zonal_aggregation splits the input features into a point-like, a
\* line-like and a polygon-like subset (multi-part variants with their base
\* kind) that are pairwise disjoint and together hold every input feature,
\* and each routine is handed the subset of its kind and nothing else.
FeaturesPartitionedByKind ==
    zpc # "init" =>
        /\ Range(point_infra) \cap Range(line_infra) = {}
        /\ Range(point_infra) \cap Range(polygon_infra) = {}
        /\ Range(line_infra) \cap Range(polygon_infra) = {}
        /\ Range(point_infra) \cup Range(line_infra) \cup Range(polygon_infra)
              = 1..Len(infra)
        /\ \A i \in 1..Len(infra) :
              /\ i \in Range(point_infra) <=>
                    infra[i].geom_type \in {"Point", "MultiPoint"}
              /\ i \in Range(line_infra) <=>
                    infra[i].geom_type \in {"LineString", "MultiLineString"}
              /\ i \in Range(polygon_infra) <=>
                    infra[i].geom_type \in {"Polygon", "MultiPolygon"}
        /\ \A r \in df_point : r.kind = "point"
        /\ \A r \in df_linestring : r.kind = "line"
        /\ (zpc # "point" => IdsOf(df_point) = Range(point_infra))
        /\ (zpc \notin {"point", "line"} /\ zerror # "NotImplementedError" =>
                IdsOf(df_linestring) = Range(line_infra))
        /\ (zpc = "waiting" =>
                FeaturesOfChunks(1..Len(futures)) = Range(polygon_infra))

\* A frame with a multi-part point, a line and a multi-part polygon went
\* through the three routines.
FeaturesPartitionedByKindWitness ==
    /\ zpc = "returned"
    /\ Len(infra) = 3
    /\ infra[1].geom_type = "MultiPolygon"
    /\ infra[2].geom_type = "LineString"
    /\ infra[3].geom_type = "MultiPoint"
    /\ Cardinality(IdsOf(zdf)) = 3

\* C15: every row of the dataframe infra_intersection.main returns has a
\* value in each of the seven statistic columns: a row with a null
\* aggregated value is dropped before loading.
ReturnedRowsHaveNoNull ==
    zpc = "main_done" =>
        \A t \in zdf : \A c \in StatColumns : c \notin t.nulls

ReturnedRowsHaveNoNullWitness ==
    /\ zpc = "main_done"
    /\ failed_aggregations > 0
    /\ zdf # {}
    /\ \E i \in 1..Len(infra) : ~infra[i].covered /\ infra[i].geom_type = "Point"

\* ------------------------------------------------------------------------
\* Properties of process_climate.load_data (checked under SpecClimate)
\* ------------------------------------------------------------------------
Eligible ==
    {m \in 1..Len(model_paths) :
        /\ validate_model_ssp(model_paths[m], scenario)
        /\ validate_model_years(GlobStores(model_paths[m], scenario))}

\* C10: when load_data ends every discovered model was either loaded or
\* skipped with a warning; it returns when at least one model is eligible
\* and fails with the explicit error "no eligible models" when none is.
SkipOrNoEligibleModels ==
    lpc \in {"returned", "failed"} =>
        /\ \A m \in 1..Len(model_paths) :
              m \in Range(data) \/ (\E i \in 1..Len(warnings) : warnings[i][1] = m)
        /\ (Eligible # {} => lpc = "returned")
        /\ (Eligible = {} => lpc = "failed" /\ lerror = "no eligible models")

\* The attributes of the stack load_data returns.
ReturnedAttrs == [a \in {"ensemble_members"} |-> ensemble_members(data)]

\* C11: the model axis of the stack load_data returns holds exactly the
\* discovered models that pass validate_model_ssp and validate_model_years,
\* each once, and the sample_size of the ensemble equals their number.
StackIsEligibleModels ==
    lpc = "returned" =>
        /\ Range(data) = Eligible
        /\ NoRepeat(data)
        /\ sample_size(ReturnedAttrs) = Cardinality(Eligible)

\* ------------------------------------------------------------------------
\* Properties of the validators (checked under SpecValidate)
\* ------------------------------------------------------------------------
\* The calendar has no year without a store and the stores name no year
\* outside the calendar.
ExactlyCovers(stores, calendar) ==
    /\ \A y \in calendar :
          \E i \in 1..Len(stores) : YearMatch(stores[i]) /\ YearOf(stores[i]) = y
    /\ \A i \in 1..Len(stores) :
          YearMatch(stores[i]) => YearOf(stores[i]) \in calendar

\* C12: validate_model_years returns true if and only if the years extracted
\* from the store names are exactly 1950..2014 or exactly 2015..2100: a
\* missing year, a surplus year or years of both ranges give false.
YearsValidIffExactCalendar ==
    ypc = "done" =>
        (years_valid <=> (\/ ExactlyCovers(zarr_stores, 1950..2014)
                          \/ ExactlyCovers(zarr_stores, 2015..2100)))

YearsValidIffExactCalendarWitness ==
    /\ ypc = "done"
    /\ ~years_valid
    /\ Len(zarr_stores) = 64
    /\ ExactlyCovers(zarr_stores, (1950..2014) \ {1960})

HistoricalList == StoreNames(YearSeq(1950, 2014))

OneRemoved == \E i \in 1..Len(HistoricalList) : zarr_stores = RemoveAt(HistoricalList, i)

OneDuplicated ==
    \E i \in 1..Len(HistoricalList) : zarr_stores = Append(HistoricalList, HistoricalList[i])

\* C13: starting from the stores of exactly 1950..2014, removing
\* any single store or listing any single year's store twice makes
\* validate_model_years return false.
RemoveOrDuplicateInvalidates ==
    (ypc = "done" /\ (OneRemoved \/ OneDuplicated)) => ~years_valid

\* C13 amended: removing any single store makes validate_model_years return
\* false; listing any single year's store twice leaves the year set
\* unchanged and validate_model_years returns true.
RemoveInvalidatesDuplicateDoesNot ==
    ypc = "done" =>
        /\ (OneRemoved => ~years_valid)
        /\ (OneDuplicated => years_valid)

RemoveInvalidatesDuplicateDoesNotWitness ==
    /\ ypc = "done"
    /\ OneDuplicated
    /\ years_valid

\* C14: validate_model_ssp returns true if and only if the directory
\* ssp<scenario> exists, or the scenario is "historical" and the directory
\* historical exists; in particular a numeric code without its ssp<code>
\* directory gives false whatever other directories exist.
SspValidIffScenarioDirectory ==
    spc = "done" =>
        (ssp_valid <=>
            (\/ <<"ssp", ssp_arg>> \in DOMAIN model_tree
             \/ (ssp_arg = "historical"
                    /\ <<"", "historical">> \in DOMAIN model_tree)))

\* ------------------------------------------------------------------------
\* Properties of point and line sampling (checked under SpecSampling)
\* ------------------------------------------------------------------------
\* The value of column c the cube holds at vertex k of a line, in the
\* decade-month of label.
VertexSample(coords, label, c) ==
    [k \in 1..Len(coords) |-> climate[label][CellOf(coords[k])][c]]

AllVertices(coords) == 1..Len(coords)

\* The first occurrence of every coordinate of the line.
DistinctVertices(coords) ==
    {k \in 1..Len(coords) : \A j \in 1..(k - 1) : coords[j] # coords[k]}

RowsFor(rows, id, label) ==
    {r \in rows : /\ r.osm_id = id
                  /\ DecadeMonthLabel(r.decade, r.month) = label}

OneRowPerLineAndLabel ==
    /\ \A i \in 1..Len(line_features), l \in 1..Len(CubeLabels) :
          Cardinality(RowsFor(lines_df, line_features[i].osm_id, CubeLabels[l])) = 1
    /\ Cardinality(lines_df) = Len(line_features) * Len(CubeLabels)

PointRowsCarryCellValues ==
    points_pc = "done" =>
        /\ Cardinality(points_df) = Len(point_features) * Len(CubeLabels)
        /\ \A i \in 1..Len(point_features), l \in 1..Len(CubeLabels) :
              \E r \in RowsFor(points_df, point_features[i].osm_id, CubeLabels[l]) :
                 \A c \in StatColumns :
                    r[c] = climate[CubeLabels[l]][CellOf(point_features[i].geometry)][c]

\* The row of every line feature and decade-month holds, over the vertices
\* S(coords) of the line: the mean in value_mean, value_median and
\* value_stddev, the minimum in value_min and value_q1, the maximum in
\* value_max and value_q3.
LineRowsReduce(S(_)) ==
    lines_pc = "done" =>
        /\ OneRowPerLineAndLabel
        /\ \A i \in 1..Len(line_features), l \in 1..Len(CubeLabels) :
              \A r \in RowsFor(lines_df, line_features[i].osm_id, CubeLabels[l]) :
                 LET coords == line_features[i].geometry
                     V(c) == VertexSample(coords, CubeLabels[l], c)
                 IN /\ \A c \in {"value_mean", "value_median", "value_stddev"} :
                          FracEq(r[c], Reduce("mean", V(c), S(coords)))
                    /\ \A c \in {"value_min", "value_q1"} :
                          FracEq(r[c], Reduce("min", V(c), S(coords)))
                    /\ \A c \in {"value_max", "value_q3"} :
                          FracEq(r[c], Reduce("max", V(c), S(coords)))

Contributors(decade, month) ==
    {i \in 1..Len(ds) : /\ ds[i].year >= decade
                        /\ ds[i].year < decade + 10
                        /\ ds[i].month = month}

\* The (decade, month) pairs that occur among the input samples.
PairsOfInput ==
    {p \in {10 * k : k \in 190..210} \X (1..12) : Contributors(p[1], p[2]) # {}}

\* C18: decade_month_calc outputs exactly one entry per distinct label
\* "{decade}-{month:02d}" occurring among the input samples, decade being
\* floor(year/10)*10, whose value is the arithmetic mean of all samples
\* with that label; a 10-year monthly series of one decade (120 samples)
\* gives exactly 12 labels, each the mean of its 10 contributors.
OneMeanPerDecadeMonth ==
    cpc = "done" =>
        /\ Cardinality(ds_out) = Cardinality(PairsOfInput)
        /\ \A p \in PairsOfInput :
              \E e \in ds_out :
                 /\ e.decade_month = DecadeMonthLabel(p[1], p[2])
                 /\ e.value.den = Cardinality(Contributors(p[1], p[2]))
                 /\ e.value.num =
                       SumOf([i \in 1..Len(ds) |-> ds[i].value],
                             Contributors(p[1], p[2]))
        /\ (Len(ds) = 120 /\ ds[1].year % 10 = 0 =>
              /\ Cardinality(ds_out) = 12
              /\ \A e \in ds_out : e.value.den = 10)

OneMeanPerDecadeMonthWitness ==
    /\ cpc = "done"
    /\ Len(ds) = 120
    /\ ds[1].year = 1950
    /\ Cardinality(ds_out) = 12
    /\ \E e \in ds_out : e.value.num = 45 /\ e.value.den = 10

HeldBy(holder) == {c \in DOMAIN used : used[c] = holder}

\* C20: during one execution of pipeline.main at most one pooled connection
\* is checked out at any time: the connection of infra_intersection.main is
\* back in the pool before the connection of infra_intersection_load.main
\* is obtained, and the checked-out connections never exceed the pool
\* maximum of 3.
OneConnectionCheckedOut ==
    /\ Cardinality(DOMAIN used) <= 1
    /\ Cardinality(DOMAIN used) <= maxconn
    /\ (HeldBy("infra_intersection_load") # {} => HeldBy("infra_intersection") = {})
    /\ (stage \in {"getconn_load", "getconn_intersection"} => DOMAIN used = {})

OneConnectionCheckedOutWitness ==
    /\ stage = "infra_intersection_load"
    /\ Cardinality(HeldBy("infra_intersection_load")) = 1
    /\ idle = {}
    /\ opened = 1

\* The statements of pipeline.main before statement st.
StagesBefore(st) ==
    LET stages == StagesOf(entry)
    IN SubSeq(stages, 1, (CHOOSE i \in 1..Len(stages) : stages[i] = st) - 1)

\* C21: within one run of pipeline.main the stages run strictly one after
\* another in the order climate processing, zonal aggregation, bulk load,
\* each starting only after the previous one returned; the ensemble
\* reduction is not executed while zonal aggregation runs; the run succeeds
\* only after the load (and its commit) returned, or fails by an exception
\* with no later stage executed.
StagesStrictlySequential ==
    /\ IsPrefix(done, StagesOf(entry))
    /\ (stage \in Range(StagesOf(entry)) => done = StagesBefore(stage))
    /\ "infra_intersection" \notin reduced_in
    /\ (stage \in {"call_main", "exited"} /\ done # <<>> =>
            done = StagesBefore("return"))
    /\ (perror # "none" =>
            /\ stage = "aborted"
            /\ done = IF perror = "call_main" THEN <<>> ELSE StagesBefore(perror))

\* ------------------------------------------------------------------------
\* Properties of the spatial steps of process_climate (checked under SpecGrid)
\* ------------------------------------------------------------------------
\* The longitudes of the whole processed grid: remapped where the variant
\* remaps them.
ProcessedLons ==
    IF garg.convert_360_lon
    THEN {((v + 180) % 360) - 180 : v \in Range(garg.x)}
    ELSE Range(garg.x)

\* C23: when a bounding box is supplied the processed grid holds exactly
\* the cells with min_lat <= y <= max_lat and min_lon <= x <= max_lon, both
\* bounds included; without a bounding box it holds the full extent; in
\* both variants and for both values of convert_360_lon.
BoxKeepsInclusiveCells ==
    gpc = "done" =>
        /\ gout.error = "none"
        /\ IF DOMAIN garg.bbox # {}
           THEN /\ Range(gout.x) =
                      {v \in ProcessedLons :
                          garg.bbox.min_lon <= v /\ v <= garg.bbox.max_lon}
                /\ Range(gout.y) =
                      {v \in Range(garg.y) :
                          garg.bbox.min_lat <= v /\ v <= garg.bbox.max_lat}
           ELSE /\ Range(gout.x) = ProcessedLons
                /\ Range(gout.y) = Range(garg.y)

\* The x axis the spatial steps worked on after the remap: the axis the
\* slice was taken on, or the returned axis when no slice was taken.
RemappedAxis == IF DOMAIN garg.bbox # {} THEN gout.sliced ELSE gout.x

\* C25: longitude normalization maps every x of a [0, 360) grid into
\* [-180, 180) (x itself below 180, x - 360 from 180 on) and leaves the
\* values already in [-180, 180) unchanged; the x axis is sorted ascending
\* after the remap and before the bounding-box slice, so the slice is
\* taken on a monotonic axis.
LonNormalizedThenSorted ==
    (gpc = "done" /\ garg.convert_360_lon) =>
        /\ gout.error = "none"
        /\ Len(RemappedAxis) = Len(garg.x)
        /\ Range(RemappedAxis) =
              {IF v >= 180 THEN v - 360 ELSE v : v \in Range(garg.x)}
        /\ \A v \in Range(RemappedAxis) : -180 <= v /\ v < 180
        /\ \A i \in 1..(Len(RemappedAxis) - 1) :
              RemappedAxis[i] < RemappedAxis[i + 1]
        /\ ((\A v \in Range(garg.x) : -180 <= v /\ v < 180) =>
                RemappedAxis = garg.x)

\* load_data remapped a [0, 360) grid, sorted it and cut a box out of its
\* western half.
LonNormalizedThenSortedWitness ==
    /\ gpc = "done"
    /\ garg.variant = "nasa_nex"
    /\ \E i \in 1..Len(garg.x) : garg.x[i] >= 180
    /\ DOMAIN garg.bbox # {}
    /\ gout.sliced[1] < 0
    /\ gout.x # <<>>
    /\ \A i \in 1..Len(gout.x) : gout.x[i] < 0

\* ------------------------------------------------------------------------
\* Properties of get_database_conn (checked under SpecDb)
\* ------------------------------------------------------------------------
\* C24: get_database_conn makes at most three connection attempts; it
\* returns the connection of the first attempt that succeeds and makes no
\* further attempt; it raises ConnectionRefusedError exactly when all three
\* attempts fail; in both copies of the function.
ThreeAttemptsFirstSuccessReturned ==
    /\ attempts <= 3
    /\ \A i \in 1..Len(db_log) :
          LET e == db_log[i]
          IN /\ e.attempts <= 3
             /\ e.attempts \in {e.failed, e.failed + 1}
             /\ (e.attempts = e.failed + 1 <=> e.result = "returned")
             /\ (e.failed = 3 /\ e.attempts = 3 <=>
                    e.result = "ConnectionRefusedError")

\* ------------------------------------------------------------------------
\* Properties of the SSP loop and of the pool (checked under SpecPipeline)
\* ------------------------------------------------------------------------
\* C26: the SSP loop of run.py invokes pipeline.main once for each SSP of
\* the list, in list order, never twice for the same SSP; when the pipeline
\* of one SSP raises, the failure is logged and the pipelines of the later
\* SSPs are still run, so that the script ends with every SSP invoked and
\* one log line (succeeded or failed) for each.
SspLoopRunsEverySsp ==
    entry \in {"nasa_nex/run.py", "scenariomip/run.py"} =>
        /\ IsPrefix(invoked, ssp_list)
        /\ Len(run_log) <= Len(invoked)
        /\ (stage \in {"exited", "aborted"} =>
                /\ invoked = ssp_list
                /\ Len(run_log) = Len(ssp_list))

\* C27: when pipeline.main has ended, by returning or by an exception, no
\* connection of its pool is still checked out.
NoConnectionLeftCheckedOut ==
    stage \in {"call_main", "exited", "aborted"} => DOMAIN used = {}

\* ------------------------------------------------------------------------
\* zonal_aggregation with a geometry kind absent (checked under SpecZonal)
\* ------------------------------------------------------------------------
\* C28: for a feature set with no polygon-like feature, or with no line
\* feature, zonal_aggregation does not raise, and what it returns for a
\* feature set with no polygon-like feature is the point and line rows.
\* Left aside are the calls that raise for another reason: a feature of
\* type MultiLineString, or every polygon worker failing.
AbsentKindDoesNotRaise ==
    LET other_cause ==
            \/ \E i \in Range(line_infra) : infra[i].geom_type = "MultiLineString"
            \/ \E i \in 1..Len(futures) : futures[i].state = "raised"
    IN (zpc \notin {"init", "point", "line"}
          /\ (polygon_infra = <<>> \/ line_infra = <<>>)
          /\ ~other_cause) =>
            /\ zpc # "raised"
            /\ (zpc = "returned" /\ polygon_infra = <<>> =>
                    zdf = df_point \cup df_linestring)

\* ------------------------------------------------------------------------
\* The head of infra_intersection.main (checked under SpecMain)
\* ------------------------------------------------------------------------
\* C29: whatever the number of features the geometry query returned, fewer
\* than 100, exactly 100 or more, infra_intersection.main reaches
\* zonal_aggregation and passes it every one of them.
EveryQueriedFeatureAggregated ==
    /\ mpc # "raised"
    /\ (mpc = "zonal_aggregation" => infra_gdf = infra_data)

\* ------------------------------------------------------------------------
\* load_data for the scenario "historical" (checked under SpecClimate)
\* ------------------------------------------------------------------------
\* C30: for the scenario "historical", every model load_data went through
\* for which validate_model_ssp is true and whose directory historical
\* holds stores for exactly 1950..2014 is in the stack.
HistoricalModelIncluded ==
    (lpc # "init" /\ scenario = "historical") =>
        \A i \in 1..(lidx - 1) :
            LET tree == ModelSlice(model_paths)[i]
            IN (/\ validate_model_ssp(tree, scenario)
                /\ <<"", "historical">> \in DOMAIN tree
                /\ ExactlyCovers(StoresOf(tree[<<"", "historical">>]), 1950..2014))
                  => i \in Range(data)

====
